---- MODULE Spec2Model ----
(***************************************************************************)
(* Model of the expression calculator of the Discord bot                   *)
(* (calculator.ts: calculate, evaluateExpression, formatCalculationResult).*)
(*                                                                         *)
(* Strings are sequences of one-character strings.  Numbers are exact      *)
(* rationals [kind |-> "num", n, d] in lowest terms (d > 0), plus NaN;     *)
(* the operands of the model are small enough that IEEE doubles carry      *)
(* them with an error far below the sixth decimal.  JavaScript's null is   *)
(* the value Null for a number and the string NullError for an error.      *)
(***************************************************************************)
EXTENDS Integers, Sequences, FiniteSets, TLC

VARIABLES
    expression,           \* the argument of calculate (raw text)
    pc,                   \* the statement of calculate that runs next
    sanitizedExpression,  \* calculate's const sanitizedExpression
    pos,                  \* evaluateExpression's cursor (let pos = 0)
    stack,                \* activation records of parseExpression/Term/Factor
    ret,                  \* the value the last finished call returned
    thrown,               \* the Error in flight, NoThrow when there is none
    logged,               \* the Error the catch block passed to console.error
    outcome,              \* what calculate returned: [result, error]
    response,             \* the caller's const response (formatCalculationResult)
    contexts,             \* per calling context: the locals of its handler
    thread,               \* the context whose handler runs, NoContext when none does
    firstCall,            \* the first call of the behaviour: its text and outcome
    dmRequests,           \* per send-to-all DM request: the closure of its handler
    listeners,            \* the confirmHandlers registered for Events.MessageCreate
    delivered,            \* how many messages the client has emitted
    stats,                \* sendDirectMessageToAllMembers' const stats
    fanOut,               \* sendDirectMessageToAllMembers' position and members
    now,                  \* Date.now(), in milliseconds since the bot started
    commandCooldowns,     \* DiscordBot.commandCooldowns: name -> user -> timestamp
    handlers,             \* per user: the stored-command handler awaiting its reply
    botCommands,          \* MemStorage.botCommands: id -> Command
    currentCommandId      \* MemStorage.currentCommandId

\* what belongs to the callers of calculate
\* the locals of calculate and of the parser
calculatorVars ==
    <<expression, pc, sanitizedExpression, pos, stack, ret, thrown, logged, outcome>>

\* the pending send-to-all DM requests
confirmVars == <<dmRequests, listeners, delivered>>

\* one activation of sendDirectMessageToAllMembers
fanOutVars == <<stats, fanOut>>

\* the cooldown bookkeeping of the stored slash commands
cooldownVars == <<now, commandCooldowns, handlers>>

\* the command store
storageVars == <<botCommands, currentCommandId>>

\* what belongs to the bot and its store, not to a caller of calculate
botVars == <<confirmVars, fanOutVars, cooldownVars, storageVars>>

callerVars == <<response, contexts, thread, firstCall, botVars>>

vars ==
    <<expression, pc, sanitizedExpression, pos, stack, ret, thrown, logged, outcome,
      response, contexts, thread, firstCall,
      dmRequests, listeners, delivered, stats, fanOut,
      now, commandCooldowns, handlers, botCommands, currentCommandId>>

-----------------------------------------------------------------------------
(* Bounds of the model *)

\* longest raw input enumerated exhaustively over Alphabet
MaxLen == 4
\* largest one-digit operand of the templated inputs a op b op c
MaxOperand == 4
\* largest one-digit operand of the inputs (a-b)*5/(d-e)
MaxDeepOperand == 3
\* longest prefix put before the padding of a long input
MaxCoreLen == 2
\* the padding of a long input has HalfLimit-PadSlack..HalfLimit+PadSlack units
PadSlack == 1
\* longest text enumerated exhaustively over ParserAlphabet
MaxFairLen == 2
\* send-to-all DM requests made in one behaviour
MaxRequests == 2
\* messages the client emits in one behaviour
MaxMessages == 3
\* largest number of non-bot members of a guild
MaxMembers == 5
\* the clock advances in steps of ClockStep milliseconds, up to MaxClock
ClockStep == 500
MaxClock == 4000
\* largest id the command store hands out
MaxCommandId == 3

-----------------------------------------------------------------------------
(* Program constants *)

ERROR_INVALID_EXPRESSION ==
    "Sorry, I couldn't understand that expression. Try something like '2 + 2' or '5 * 10'."
ERROR_DIVISION_BY_ZERO ==
    "I can't divide by zero! That's not allowed in this universe."
ERROR_TOO_COMPLEX == "That expression is too complex for me to handle."

\* if (sanitizedExpression.length > 100)
MaxExpressionLength == 100

\* result.toFixed(6)
FixedDigits == 6

NullError == "null"
NoThrow == "none"
NoResponse == <<>>
NoContext == "none"

\* the handlers that call calculate: Events.MessageCreate (a "/calculate "
\* text message) and Events.InteractionCreate (the slash command)
Contexts == {"message", "interaction"}

\* the users that write messages and use commands
Users == {"u1", "u2"}
NoUser == "none"

\* the send-to-all DM requests, in the order they are made
Requests == 1..MaxRequests

\* a request that has not been made.  timeoutId is the 30-second timer,
\* cleanupId the 31-second one; announcing counts the activations of
\* processBulkDm that await their first send, started and returned the calls
\* of sendDirectMessageToAllMembers, timedOut whether the notice
\* 'Confirmation timed out. No messages were sent.' was sent, and confirms
\* the messages emitted since the request that pass its filter
NoRequest ==
    [author |-> NoUser, confirmed |-> FALSE, timeoutId |-> "unset",
     cleanupId |-> "unset", announcing |-> 0, started |-> 0, returned |-> 0,
     timedOut |-> FALSE, confirms |-> 0]

\* const stats = { total: 0, sent: 0, failed: 0, errors: [] }
NoStats == [total |-> 0, sent |-> 0, failed |-> 0, errors |-> 0]

\* no activation of sendDirectMessageToAllMembers; tally[i] is how often the
\* i-th non-bot member was counted as sent and as failed
IdleFanOut ==
    [pc |-> "idle", progressChannel |-> FALSE, cache |-> <<>>, members |-> 0,
     index |-> 0, tally |-> <<>>]

\* if (progressChannel && stats.sent % 5 === 0)
ProgressEvery == 5

\* cooldownTime * 1000
MsPerSecond == 1000
\* timestamps.get(userId)! + 3000
DefaultCooldownMs == 3000
\* cooldown: insertCommand.cooldown ?? 3
DefaultCooldown == 3

\* the cooldowns, in seconds, a stored command is configured with
Cooldowns == {1, DefaultCooldown, 5}

\* a stored-command handler that is not running
IdleHandler == [state |-> "idle", cooldown |-> 0, remaining |-> 0]

CommandNames == {"repeat", "greet"}

\* the command the constructor of MemStorage creates
RepeatCommand ==
    [id |-> 1, name |-> "repeat", cooldown |-> DefaultCooldown, usageCount |-> 0]

-----------------------------------------------------------------------------
(* Numbers *)

Null == [kind |-> "null", n |-> 0, d |-> 1]
NaN == [kind |-> "nan", n |-> 0, d |-> 1]

Abs(i) == IF i < 0 THEN -i ELSE i

RECURSIVE Gcd(_, _)
Gcd(a, b) == IF b = 0 THEN a ELSE Gcd(b, a % b)

RECURSIVE Pow10(_)
Pow10(k) == IF k = 0 THEN 1 ELSE 10 * Pow10(k - 1)

\* the rational n/d (d # 0) in lowest terms with a positive denominator
Rat(n, d) ==
    LET g == Gcd(Abs(n), Abs(d))
        s == IF d < 0 THEN -1 ELSE 1
    IN  [kind |-> "num", n |-> s * (n \div g), d |-> Abs(d) \div g]

IntVal(i) == [kind |-> "num", n |-> i, d |-> 1]

IsNum(x) == x.kind = "num"

\* left += y ; left -= y ; left *= y ; left /= y on doubles (NaN is absorbing)
NumAdd(x, y) ==
    IF IsNum(x) /\ IsNum(y) THEN Rat(x.n * y.d + y.n * x.d, x.d * y.d) ELSE NaN
NumSub(x, y) ==
    IF IsNum(x) /\ IsNum(y) THEN Rat(x.n * y.d - y.n * x.d, x.d * y.d) ELSE NaN
NumMul(x, y) ==
    IF IsNum(x) /\ IsNum(y) THEN Rat(x.n * y.n, x.d * y.d) ELSE NaN
\* the caller has excluded y === 0
NumDiv(x, y) ==
    IF IsNum(x) /\ IsNum(y) /\ y.n # 0 THEN Rat(x.n * y.d, x.d * y.n) ELSE NaN

\* divisor === 0 (false for NaN)
IsZero(x) == IsNum(x) /\ x.n = 0

\* isFinite(result): no operation of the calculator yields an infinity from
\* at most 100 characters, so NaN is the only non-finite value
IsFinite(x) == IsNum(x)

\* Number.isInteger(result)
IsInteger(x) == IsNum(x) /\ x.d = 1

-----------------------------------------------------------------------------
(* Characters and strings *)

DigitChars == <<"0", "1", "2", "3", "4", "5", "6", "7", "8", "9">>

\* expression[pos] >= '0' && expression[pos] <= '9'
IsDigit(c) == \E i \in 1..10 : DigitChars[i] = c

DigitValue(c) == (CHOOSE i \in 1..10 : DigitChars[i] = c) - 1

\* the regular expression class \s (those of its characters the model uses)
IsWhitespace(c) == c \in {" ", "\t", "\n", "\r"}

\* the character class [0-9+\-*/().]
IsAllowedChar(c) == IsDigit(c) \/ c \in {"+", "-", "*", "/", "(", ")", "."}

\* expression[p] with p counted from 0; past the end JavaScript gives undefined
CharAt(s, p) == IF p >= 0 /\ p < Len(s) THEN s[p + 1] ELSE "undefined"

\* expression.substring(from, to)
Substring(s, from, to) == SubSeq(s, from + 1, to)

RECURSIVE Repeat(_, _)
Repeat(u, k) == IF k = 0 THEN <<>> ELSE u \o Repeat(u, k - 1)

-----------------------------------------------------------------------------
(* Number literals and result formatting *)

\* how many digit characters s holds from index i (counted from 1) on
RECURSIVE DigitRun(_, _)
DigitRun(s, i) ==
    IF i <= Len(s) /\ IsDigit(s[i]) THEN 1 + DigitRun(s, i + 1) ELSE 0

\* the natural number a string of digits denotes (0 for the empty string)
RECURSIVE DigitsValue(_)
DigitsValue(s) ==
    IF s = <<>> THEN 0
    ELSE 10 * DigitsValue(SubSeq(s, 1, Len(s) - 1)) + DigitValue(s[Len(s)])

\* parseFloat(text) for a text of digits and dots: the longest prefix that is
\* a decimal literal (digits, at most one dot, digits) is converted, whatever
\* follows it is ignored, and a prefix without any digit gives NaN
ParseFloat(text) ==
    LET k == DigitRun(text, 1)
        hasDot == k < Len(text) /\ text[k + 1] = "."
        f == IF hasDot THEN DigitRun(text, k + 2) ELSE 0
    IN  IF k = 0 /\ f = 0 THEN NaN
        ELSE Rat(DigitsValue(SubSeq(text, 1, k)) * Pow10(f)
                   + DigitsValue(SubSeq(text, k + 2, k + 1 + f)),
                 Pow10(f))

\* the first k decimals of r/d (0 <= r < d) as a natural number, with the
\* remainder they leave: <<decimals, remainder>>
RECURSIVE Decimals(_, _, _)
Decimals(r, d, k) ==
    IF k = 0 THEN <<0, r>>
    ELSE LET head == Decimals(r, d, k - 1)
         IN  <<10 * head[1] + ((10 * head[2]) \div d), (10 * head[2]) % d>>

\* a variant that cuts the decimals after the sixth instead of rounding
ToFixedTruncated(x) ==
    LET a == Abs(x.n)
        dec == Decimals(a % x.d, x.d, FixedDigits)
        frac == Rat(dec[1], Pow10(FixedDigits))
        sign == IF x.n < 0 THEN -1 ELSE 1
    IN  Rat(sign * ((a \div x.d) * frac.d + frac.n), frac.d)

\* parseFloat(result.toFixed(6)): the closest multiple of 10^-6, the one of
\* larger magnitude when two are equally close
ToFixedParsed(x) ==
    LET a == Abs(x.n)
        whole == a \div x.d
        dec == Decimals(a % x.d, x.d, FixedDigits)
        micros == IF 2 * dec[2] >= x.d THEN dec[1] + 1 ELSE dec[1]
        frac == Rat(micros, Pow10(FixedDigits))
        sign == IF x.n < 0 THEN -1 ELSE 1
    IN  Rat(sign * (whole * frac.d + frac.n), frac.d)

\* a variant without the isFinite test
FormatResultUnchecked(x) ==
    IF IsInteger(x) THEN x ELSE IF IsNum(x) THEN ToFixedParsed(x) ELSE x

\* const formattedResult = isFinite(result) ?
\*   (Number.isInteger(result) ? result : parseFloat(result.toFixed(6))) : null
FormatResult(x) ==
    IF IsFinite(x) THEN (IF IsInteger(x) THEN x ELSE ToFixedParsed(x)) ELSE Null

-----------------------------------------------------------------------------
(* The checks calculate makes before it parses *)

\* a variant that removes the whitespace at the two ends only (trim)
SanitizeEndsOnly(s) ==
    LET kept == {i \in 1..Len(s) : ~IsWhitespace(s[i])}
    IN  IF kept = {} THEN <<>>
        ELSE SubSeq(s, CHOOSE i \in kept : \A j \in kept : i <= j,
                       CHOOSE i \in kept : \A j \in kept : j <= i)

\* expression.replace(/\s+/g, '')
Sanitize(s) == SelectSeq(s, LAMBDA c : ~IsWhitespace(c))

\* a variant without the anchors ^ and $: one allowed character is enough
OnlyAllowedCharsUnanchored(s) == \E i \in 1..Len(s) : IsAllowedChar(s[i])

\* a variant with * for +: the empty text passes
OnlyAllowedCharsOrNone(s) == \A i \in 1..Len(s) : IsAllowedChar(s[i])

\* /^[0-9+\-*/().]+$/.test(s)
OnlyAllowedChars(s) == Len(s) >= 1 /\ \A i \in 1..Len(s) : IsAllowedChar(s[i])

\* a variant that lets one character more pass
TooLongOffByOne(s) == Len(s) > MaxExpressionLength + 1

\* a variant that rejects a text of exactly the limit
TooLongInclusive(s) == Len(s) >= MaxExpressionLength

\* s.length > 100
TooLong(s) == Len(s) > MaxExpressionLength

\* a variant that matches only a 0 that is a whole number literal
HasSlashZeroLiteral(s) ==
    \E i \in 1..(Len(s) - 1) :
        /\ s[i] = "/"
        /\ s[i + 1] = "0"
        /\ (i + 2 <= Len(s) => ~(IsDigit(s[i + 2]) \/ s[i + 2] = "."))

\* /\/\s*0/.test(s): a slash, any whitespace, the digit 0
HasSlashZero(s) ==
    \E i \in 1..Len(s) : \E j \in (i + 1)..Len(s) :
        /\ s[i] = "/"
        /\ s[j] = "0"
        /\ \A k \in (i + 1)..(j - 1) : IsWhitespace(s[k])

\* the statements of calculate that the try block encloses
TryStatements ==
    {"sanitize", "checkChars", "checkLength", "checkDivisionByZero",
     "evaluate", "format"}

Outcome(result, error) == [result |-> result, error |-> error]

\* a variant that tests the result for truthiness instead of null
ResultOutcomeTruthy(formattedResult) ==
    Outcome(formattedResult,
            IF formattedResult = Null \/ IsZero(formattedResult)
            THEN ERROR_INVALID_EXPRESSION ELSE NullError)

\* return { result: formattedResult,
\*          error: formattedResult === null ? ERROR_INVALID_EXPRESSION : null }
ResultOutcome(formattedResult) ==
    Outcome(formattedResult,
            IF formattedResult = Null THEN ERROR_INVALID_EXPRESSION ELSE NullError)

\* return { result: null, error }
ErrorOutcome(error) == Outcome(Null, error)

-----------------------------------------------------------------------------
(* The inputs calculate is called with *)

Alphabet == {"0", "1", "2", "+", "-", "*", "/", "(", ")", ".", " ", "a"}
CoreAlphabet == {"1", "2", "(", " ", "a"}
Operators == {"+", "-", "*", "/"}

StringsUpTo(chars, len) == UNION {[1..n -> chars] : n \in 0..len}

Digit(i) == <<DigitChars[i + 1]>>
Operands == {Digit(i) : i \in 0..MaxOperand}

\* a o1 b o2 c, (a o1 b) o2 c, a o1 (b o2 c), and a o1 b o2 c typed with blanks
Flat(a, o1, b, o2, c) == a \o <<o1>> \o b \o <<o2>> \o c
GroupLeft(a, o1, b, o2, c) == <<"(">> \o a \o <<o1>> \o b \o <<")", o2>> \o c
GroupRight(a, o1, b, o2, c) == a \o <<o1, "(">> \o b \o <<o2>> \o c \o <<")">>
Spaced(a, o1, b, o2, c) == a \o <<" ", o1, " ">> \o b \o <<" ", o2, " ">> \o c

\* (a-b)*5/(d-e)
Deep(a, b, d, e) ==
    <<"(">> \o a \o <<"-">> \o b \o <<")", "*", "5", "/", "(">> \o d \o <<"-">>
        \o e \o <<")">>

TemplateInputs ==
    UNION {{Flat(a, o1, b, o2, c), GroupLeft(a, o1, b, o2, c),
            GroupRight(a, o1, b, o2, c), Spaced(a, o1, b, o2, c)} :
           <<a, o1, b, o2, c>> \in
               Operands \X Operators \X Operands \X Operators \X Operands}

\* a/0.b: a divisor that starts with the digit 0 and is not zero
DecimalDivisions ==
    {q[1] \o <<"/", "0", ".">> \o q[2] : q \in Operands \X Operands}

\* 0.a+0.b: a sum of two decimal fractions
DecimalSums ==
    {<<"0", ".">> \o q[1] \o <<"+", "0", ".">> \o q[2] : q \in Operands \X Operands}

\* texts with a line break in them
MultiLineInputs ==
    {<<"1", "\n", "+", "1">>, <<"2", "*", "\n", "a">>, <<"1", "/", "\n", "0">>}

DeepInputs ==
    LET D == {Digit(i) : i \in 0..MaxDeepOperand}
    IN  {Deep(q[1], q[2], q[3], q[4]) : q \in D \X D \X D \X D}

\* inputs around the length limit: a short prefix and a padding of two-character
\* units, between them shorter than, as long as, and longer than the limit
PadUnits == {<<"+", "1">>, <<" ", " ">>, <<"/", "0">>}
HalfLimit == MaxExpressionLength \div 2
LongInputs ==
    {q[1] \o Repeat(q[2], q[3]) :
        q \in StringsUpTo(CoreAlphabet, MaxCoreLen) \X PadUnits
                \X ((HalfLimit - PadSlack)..(HalfLimit + PadSlack))}

Inputs ==
    StringsUpTo(Alphabet, MaxLen) \cup TemplateInputs \cup DecimalDivisions
        \cup DecimalSums \cup MultiLineInputs \cup DeepInputs \cup LongInputs

-----------------------------------------------------------------------------
(* State *)

\* a handler that is not running: it holds no expression and no outcome
IdleContext ==
    [state |-> "idle", expression |-> <<>>, outcome |-> Outcome(Null, NullError)]

Frame(fn, at, left) == [fn |-> fn, at |-> at, left |-> left]

Top == stack[Len(stack)]
Below == SubSeq(stack, 1, Len(stack) - 1)

Init ==
    /\ expression = <<>>
    /\ pc = "idle"
    /\ sanitizedExpression = <<>>
    /\ pos = 0
    /\ stack = <<>>
    /\ ret = Null
    /\ thrown = NoThrow
    /\ logged = NoThrow
    /\ outcome = Outcome(Null, NullError)
    /\ response = NoResponse
    /\ contexts = [c \in Contexts |-> IdleContext]
    /\ thread = NoContext
    /\ firstCall = [made |-> FALSE, expression |-> <<>>, outcome |-> Outcome(Null, NullError)]
    /\ dmRequests = [r \in Requests |-> NoRequest]
    /\ listeners = {}
    /\ delivered = 0
    /\ stats = NoStats
    /\ fanOut = IdleFanOut
    /\ now = 0
    /\ commandCooldowns = <<>>
    /\ handlers = [u \in Users |-> IdleHandler]
    /\ botCommands = (1 :> RepeatCommand)
    /\ currentCommandId = 2

\* a caller invokes calculate(e)
Call ==
    /\ pc = "idle"
    /\ \E e \in Inputs : expression' = e
    /\ pc' = "sanitize"
    /\ UNCHANGED <<logged, sanitizedExpression, pos, stack, ret, thrown, outcome>>
    /\ UNCHANGED callerVars

\* return value; of calculate
Return(value) ==
    /\ outcome' = value
    /\ pc' = "done"

\* throw new Error(message): the activation records are unwound
Throw(message) ==
    /\ thrown' = message
    /\ stack' = <<>>

-----------------------------------------------------------------------------
(* calculate, lines 20-36: sanitize and check *)

SanitizeStep ==
    /\ pc = "sanitize"
    /\ sanitizedExpression' = Sanitize(expression)
    /\ pc' = "checkChars"
    /\ UNCHANGED <<logged, expression, pos, stack, ret, thrown, outcome>>
    /\ UNCHANGED callerVars

CheckChars ==
    /\ pc = "checkChars"
    /\ IF ~OnlyAllowedChars(sanitizedExpression)
       THEN Return(ErrorOutcome(ERROR_INVALID_EXPRESSION))
       ELSE pc' = "checkLength" /\ UNCHANGED outcome
    /\ UNCHANGED <<logged, expression, sanitizedExpression, pos, stack, ret, thrown>>
    /\ UNCHANGED callerVars

\* a variant that scans for "/0" before it measures the length
CheckLengthAfterSlashZero ==
    /\ pc = "checkLength"
    /\ IF HasSlashZero(sanitizedExpression)
       THEN Return(ErrorOutcome(ERROR_DIVISION_BY_ZERO))
       ELSE IF TooLong(sanitizedExpression)
       THEN Return(ErrorOutcome(ERROR_TOO_COMPLEX))
       ELSE pc' = "checkDivisionByZero" /\ UNCHANGED outcome
    /\ UNCHANGED <<logged, expression, sanitizedExpression, pos, stack, ret, thrown>>
    /\ UNCHANGED callerVars

\* if (sanitizedExpression.length > 100) return { ... ERROR_TOO_COMPLEX }
CheckLength ==
    /\ pc = "checkLength"
    /\ IF TooLong(sanitizedExpression)
       THEN Return(ErrorOutcome(ERROR_TOO_COMPLEX))
       ELSE pc' = "checkDivisionByZero" /\ UNCHANGED outcome
    /\ UNCHANGED <<logged, expression, sanitizedExpression, pos, stack, ret, thrown>>
    /\ UNCHANGED callerVars

CheckDivisionByZero ==
    /\ pc = "checkDivisionByZero"
    /\ IF HasSlashZero(sanitizedExpression)
       THEN Return(ErrorOutcome(ERROR_DIVISION_BY_ZERO)) /\ UNCHANGED stack
       ELSE /\ pc' = "evaluate"
            /\ stack' = <<Frame("evaluateExpression", "call", Null)>>
            /\ UNCHANGED outcome
    /\ UNCHANGED <<logged, expression, sanitizedExpression, pos, ret, thrown>>
    /\ UNCHANGED callerVars

-----------------------------------------------------------------------------
(* evaluateExpression, lines 64-148: the recursive-descent parser.  The     *)
(* frame on top of the stack is the function that runs; a frame whose "at"  *)
(* names a call site is on top exactly when that call has returned, with    *)
(* the returned value in ret.                                               *)

Running(fn) ==
    /\ pc = "evaluate"
    /\ thrown = NoThrow
    /\ stack # <<>>
    /\ Top.fn = fn

\* the callee is entered: the caller waits at the call site `at`
CallFrom(at, left, callee) ==
    stack' = Below \o <<Frame(Top.fn, at, left), Frame(callee, "call", Null)>>

\* return value; of a parse function
ReturnValue(value) ==
    /\ stack' = Below
    /\ ret' = value

\* variants: the operand after '+' or '-' parsed as a factor, or as a whole
\* expression (right recursion)
ExpressionRightOperandFactor == "parseFactor"
ExpressionRightOperandRecursive == "parseExpression"

\* the rule parseExpression calls for the operand after '+' or '-'
ExpressionRightOperand == "parseTerm"

\* the rule parseTerm calls for the operand after '*' or '/'
TermRightOperand == "parseFactor"

\* a variant without the check for unconsumed input
TrailingInputIgnored(p, s) == FALSE

\* if (pos !== expression.length)
TrailingInput(p, s) == p # Len(s)

\* a variant whose cursor is not set back: it starts where the last call of
\* evaluateExpression left it
InitialPosKept(last) == last

\* let pos = 0: every call of evaluateExpression has a cursor of its own
InitialPos(last) == 0

\* let pos = 0; ... const result = parseExpression();
EvaluateExpressionCall ==
    /\ Running("evaluateExpression")
    /\ Top.at = "call"
    /\ pos' = InitialPos(pos)
    /\ CallFrom("result", Null, "parseExpression")
    /\ UNCHANGED <<logged, expression, pc, sanitizedExpression, ret, thrown, outcome>>
    /\ UNCHANGED callerVars

\* if (pos !== expression.length) throw ...; return result;
EvaluateExpressionReturn ==
    /\ Running("evaluateExpression")
    /\ Top.at = "result"
    /\ IF TrailingInput(pos, sanitizedExpression)
       THEN Throw("Unexpected character") /\ UNCHANGED <<pc, ret>>
       ELSE ReturnValue(ret) /\ pc' = "format" /\ UNCHANGED thrown
    /\ UNCHANGED <<logged, expression, sanitizedExpression, pos, outcome>>
    /\ UNCHANGED callerVars

\* let left = parseTerm();
ParseExpressionCall ==
    /\ Running("parseExpression")
    /\ Top.at = "call"
    /\ CallFrom("left", Null, "parseTerm")
    /\ UNCHANGED <<logged, expression, pc, sanitizedExpression, pos, ret, thrown, outcome>>
    /\ UNCHANGED callerVars

\* a variant that adds where it should subtract
ExpressionLeftAddOnly(frame, value) ==
    IF frame.at = "left" THEN value ELSE NumAdd(frame.left, value)

\* left after the call that has just returned is folded in:
\* let left = parseTerm(); left += parseTerm(); left -= parseTerm();
ExpressionLeft(frame, value) ==
    CASE frame.at = "left" -> value
      [] frame.at = "add" -> NumAdd(frame.left, value)
      [] frame.at = "sub" -> NumSub(frame.left, value)

\* one pass of while (pos < expression.length) { ... } and return left;
ParseExpressionLoop ==
    /\ Running("parseExpression")
    /\ Top.at \in {"left", "add", "sub"}
    /\ LET left == ExpressionLeft(Top, ret)
           char == CharAt(sanitizedExpression, pos)
       IN  IF pos < Len(sanitizedExpression) /\ char = "+"
           THEN /\ pos' = pos + 1
                /\ CallFrom("add", left, ExpressionRightOperand)
                /\ UNCHANGED ret
           ELSE IF pos < Len(sanitizedExpression) /\ char = "-"
           THEN /\ pos' = pos + 1
                /\ CallFrom("sub", left, ExpressionRightOperand)
                /\ UNCHANGED ret
           ELSE ReturnValue(left) /\ UNCHANGED pos
    /\ UNCHANGED <<logged, expression, pc, sanitizedExpression, thrown, outcome>>
    /\ UNCHANGED callerVars

\* let left = parseFactor();
ParseTermCall ==
    /\ Running("parseTerm")
    /\ Top.at = "call"
    /\ CallFrom("left", Null, "parseFactor")
    /\ UNCHANGED <<logged, expression, pc, sanitizedExpression, pos, ret, thrown, outcome>>
    /\ UNCHANGED callerVars

\* if (divisor === 0) throw new Error('Division by zero');
DivisionThrows(frame, value) == frame.at = "div" /\ IsZero(value)

\* let left = parseFactor(); left *= parseFactor(); left /= divisor;
TermLeft(frame, value) ==
    CASE frame.at = "left" -> value
      [] frame.at = "mul" -> NumMul(frame.left, value)
      [] frame.at = "div" -> NumDiv(frame.left, value)

\* one pass of while (pos < expression.length) { ... } and return left;
ParseTermLoop ==
    /\ Running("parseTerm")
    /\ Top.at \in {"left", "mul", "div"}
    /\ IF DivisionThrows(Top, ret)
       THEN Throw("Division by zero") /\ UNCHANGED <<pos, ret>>
       ELSE LET left == TermLeft(Top, ret)
                char == CharAt(sanitizedExpression, pos)
            IN  /\ IF pos < Len(sanitizedExpression) /\ char = "*"
                   THEN pos' = pos + 1 /\ CallFrom("mul", left, TermRightOperand)
                        /\ UNCHANGED ret
                   ELSE IF pos < Len(sanitizedExpression) /\ char = "/"
                   THEN pos' = pos + 1 /\ CallFrom("div", left, TermRightOperand)
                        /\ UNCHANGED ret
                   ELSE ReturnValue(left) /\ UNCHANGED pos
                /\ UNCHANGED thrown
    /\ UNCHANGED <<logged, expression, pc, sanitizedExpression, outcome>>
    /\ UNCHANGED callerVars

\* a variant that takes a sign for a part of the number
IsNumberCharOrSign(c) == IsDigit(c) \/ c \in {".", "+", "-"}

\* (expression[pos] >= '0' && expression[pos] <= '9') || expression[pos] === '.'
IsNumberChar(c) == IsDigit(c) \/ c = "."

\* a variant that leaves the cursor on the '('
SkipOpenStay(p) == p

\* pos++; // Skip '('
SkipOpen(p) == p + 1

\* where the loop while (pos < expression.length && ...) pos++ leaves pos
RECURSIVE NumberEnd(_, _)
NumberEnd(s, p) ==
    IF p < Len(s) /\ IsNumberChar(CharAt(s, p)) THEN NumberEnd(s, p + 1) ELSE p

\* a variant that takes the empty text for a number
NumberMissingIgnored(start, p) == FALSE

\* if (start === pos): the scan has consumed nothing
NumberMissing(start, p) == start = p

\* parseFactor up to its first call or return: '(' opens a nested expression,
\* anything else must be a number
ParseFactorCall ==
    /\ Running("parseFactor")
    /\ Top.at = "call"
    /\ IF CharAt(sanitizedExpression, pos) = "("
       THEN /\ pos' = SkipOpen(pos)
            /\ CallFrom("paren", Null, "parseExpression")
            /\ UNCHANGED <<ret, thrown>>
       ELSE LET start == pos
                end == NumberEnd(sanitizedExpression, pos)
            IN  IF NumberMissing(start, end)
                THEN Throw("Expected a number") /\ UNCHANGED <<pos, ret>>
                ELSE /\ pos' = end
                     /\ ReturnValue(ParseFloat(Substring(sanitizedExpression, start, end)))
                     /\ UNCHANGED thrown
    /\ UNCHANGED <<logged, expression, pc, sanitizedExpression, outcome>>
    /\ UNCHANGED callerVars

\* a variant that takes whatever follows the nested expression for the ')'
ClosingPresentAlways(c) == TRUE

\* if (expression[pos] === ')')
ClosingPresent(c) == c = ")"

\* a variant that goes on without the ')' when it is missing
ParseFactorCloseLenient ==
    /\ Running("parseFactor")
    /\ Top.at = "paren"
    /\ pos' = IF CharAt(sanitizedExpression, pos) = ")" THEN pos + 1 ELSE pos
    /\ ReturnValue(ret)
    /\ UNCHANGED <<logged, expression, pc, sanitizedExpression, outcome, thrown>>
    /\ UNCHANGED callerVars

\* if (expression[pos] === ')') pos++; else throw ...; return result;
ParseFactorClose ==
    /\ Running("parseFactor")
    /\ Top.at = "paren"
    /\ IF ClosingPresent(CharAt(sanitizedExpression, pos))
       THEN pos' = pos + 1 /\ ReturnValue(ret) /\ UNCHANGED thrown
       ELSE Throw("Missing closing parenthesis") /\ UNCHANGED <<pos, ret>>
    /\ UNCHANGED <<logged, expression, pc, sanitizedExpression, outcome>>
    /\ UNCHANGED callerVars

-----------------------------------------------------------------------------
(* calculate, lines 41-54: format the result, catch what was thrown *)

Format ==
    /\ pc = "format"
    /\ thrown = NoThrow
    /\ Return(ResultOutcome(FormatResult(ret)))
    /\ UNCHANGED <<logged, expression, sanitizedExpression, pos, stack, ret, thrown>>
    /\ UNCHANGED callerVars

\* a variant in which the try block ends before the call of evaluateExpression
GuardedChecksOnly(statement) == statement \in TryStatements \ {"evaluate"}

\* the statement that was running when the Error was thrown lies in the try block
Guarded(statement) == statement \in TryStatements

\* a variant that tells the caught errors apart
CatchOutcomeByKind(error) ==
    ErrorOutcome(IF error = "Division by zero"
                 THEN ERROR_DIVISION_BY_ZERO ELSE ERROR_INVALID_EXPRESSION)

\* return { result: null, error: ERROR_INVALID_EXPRESSION }; whatever was caught
CatchOutcome(error) == ErrorOutcome(ERROR_INVALID_EXPRESSION)

\* catch (error) { console.error('Error evaluating expression:', error);
\*                 return { result: null, error: ERROR_INVALID_EXPRESSION }; }
\* an Error thrown outside the try block would leave calculate uncaught
Catch ==
    /\ thrown # NoThrow
    /\ pc \notin {"done", "crashed"}
    /\ IF Guarded(pc)
       THEN /\ logged' = thrown
            /\ thrown' = NoThrow
            /\ Return(CatchOutcome(thrown))
       ELSE pc' = "crashed" /\ UNCHANGED <<outcome, thrown, logged>>
    /\ UNCHANGED <<expression, sanitizedExpression, pos, stack, ret>>
    /\ UNCHANGED callerVars

-----------------------------------------------------------------------------
(* formatCalculationResult, lines 158-168.  The message is a sequence of    *)
(* characters in which each fixed piece of the template, and the error      *)
(* message, is one element.                                                 *)

\* the backquote character, which a string of TLA+ cannot hold
Backquote == "backquote"

ExpressionLabel == "**Expression:** "
ErrorLabel == "**Error:** "
ResultLabel == "**Result:** "

\* the decimal digits of the natural number n
RECURSIVE NatText(_)
NatText(n) ==
    IF n < 10 THEN <<DigitChars[n + 1]>>
    ELSE NatText(n \div 10) \o <<DigitChars[(n % 10) + 1]>>

\* the decimals of r/d (0 <= r < d) up to the last one that is not 0, at most
\* k of them
RECURSIVE FractionText(_, _, _)
FractionText(r, d, k) ==
    IF r = 0 \/ k = 0 THEN <<>>
    ELSE <<DigitChars[((10 * r) \div d) + 1]>> \o FractionText((10 * r) % d, d, k - 1)

\* `${result}`: Number to string, for the magnitudes JavaScript writes without
\* an exponent; null and NaN are written by name
NumberText(x) ==
    IF x = Null THEN <<"n", "u", "l", "l">>
    ELSE IF ~IsNum(x) THEN <<"N", "a", "N">>
    ELSE LET a == Abs(x.n)
             fraction == FractionText(a % x.d, x.d, 17)
         IN  (IF x.n < 0 THEN <<"-">> ELSE <<>>)
                 \o NatText(a \div x.d)
                 \o (IF fraction = <<>> THEN <<>> ELSE <<".">> \o fraction)

\* if (error): null and the empty string are falsy
Truthy(error) == error # NullError /\ error # ""

\* a variant that shows a result only when the result is truthy
FormatCalculationResultFalsy(e, result, error) ==
    IF Truthy(error) \/ result = Null \/ IsZero(result)
    THEN <<ExpressionLabel, Backquote>> \o e \o <<Backquote, "\n", ErrorLabel, error>>
    ELSE <<ExpressionLabel, Backquote>> \o e \o <<Backquote, "\n", ResultLabel, Backquote>>
             \o NumberText(result) \o <<Backquote>>

\* if (error) return `... **Expression:** \`${expression}\`\n... **Error:** ${error}`;
\* return `... **Expression:** \`${expression}\`\n... **Result:** \`${result}\``;
FormatCalculationResult(e, result, error) ==
    IF Truthy(error)
    THEN <<ExpressionLabel, Backquote>> \o e \o <<Backquote, "\n", ErrorLabel, error>>
    ELSE <<ExpressionLabel, Backquote>> \o e \o <<Backquote, "\n", ResultLabel, Backquote>>
             \o NumberText(result) \o <<Backquote>>

\* the caller, once calculate has returned:
\* const response = formatCalculationResult(expression, result, error);
FormatResponse ==
    /\ pc = "done"
    /\ thread = NoContext
    /\ response = NoResponse
    /\ response' = FormatCalculationResult(expression, outcome.result, outcome.error)
    /\ UNCHANGED <<expression, pc, sanitizedExpression, pos, stack, ret, thrown,
                   logged, outcome, contexts, thread, firstCall, botVars>>

-----------------------------------------------------------------------------

Next ==
    \/ Call
    \/ SanitizeStep
    \/ CheckChars
    \/ CheckLength
    \/ CheckDivisionByZero
    \/ EvaluateExpressionCall
    \/ EvaluateExpressionReturn
    \/ ParseExpressionCall
    \/ ParseExpressionLoop
    \/ ParseTermCall
    \/ ParseTermLoop
    \/ ParseFactorCall
    \/ ParseFactorClose
    \/ Format
    \/ Catch
    \/ FormatResponse

Spec == Init /\ [][Next]_vars

\* the statements of calculate and of the parser
Statements ==
    \/ SanitizeStep
    \/ CheckChars
    \/ CheckLength
    \/ CheckDivisionByZero
    \/ EvaluateExpressionCall
    \/ EvaluateExpressionReturn
    \/ ParseExpressionCall
    \/ ParseExpressionLoop
    \/ ParseTermCall
    \/ ParseTermLoop
    \/ ParseFactorCall
    \/ ParseFactorClose
    \/ Format
    \/ Catch

\* the texts of the fair specification: all short texts over the characters
\* the parser tells apart, two texts in which every rule calls and loops, and
\* the longest texts the length guard lets pass, a chain of additions and a
\* nest of parentheses
ParserAlphabet == {"1", "+", "*", "(", ")", "."}
FairInputs ==
    StringsUpTo(ParserAlphabet, MaxFairLen)
        \cup {<<"(", "1", "+", "1", ")", "*", "(", "(", "1", ")", ")">>,
              <<"1", "*", "(", "1", "+", "a">>,
              Repeat(<<"1", "+">>, HalfLimit), Repeat(<<"(", "(">>, HalfLimit)}

\* a caller invokes calculate(e)
FairCall ==
    /\ pc = "idle"
    /\ \E e \in FairInputs : expression' = e
    /\ pc' = "sanitize"
    /\ UNCHANGED <<logged, sanitizedExpression, pos, stack, ret, thrown, outcome>>
    /\ UNCHANGED callerVars

FairNext == FairCall \/ Statements

\* calculate is synchronous code: once it is called, the statement that can
\* run does run (nothing obliges a caller to call)
FairSpec == Init /\ [][FairNext]_vars /\ WF_vars(Statements)

-----------------------------------------------------------------------------
(* Several handlers that call calculate (bot.ts).  A handler runs without   *)
(* interruption up to its next await, and calculate awaits nothing, so the  *)
(* activations of calculate never overlap: the variables of calculate are   *)
(* the locals of the activation that runs, and between two calls they hold  *)
(* what the last activation left, which a new activation must not read.     *)
(* A handler keeps its own result and error while it awaits the reply.      *)

\* the texts the handlers pass: trimmed and not empty
CalledInputs ==
    {<<"1", "+", "2">>, <<"1", " ", "+", " ", "2">>, <<"1", "2">>, <<"1", " ", "2">>,
     <<"2", "+">>, <<"(", "1">>, <<"1", " ", "/", " ", "0">>, <<"a">>}

\* a variant in which the handlers read one shared outcome, the one of the
\* last call
ResultOfShared(c) == outcome

\* the handler's own const { result, error }
ResultOf(c) == contexts[c].outcome

\* const { result, error } = calculate(expression): the handler of c is
\* entered and calls calculate
Calculate(c) ==
    /\ thread = NoContext
    /\ pc \in {"idle", "done"}
    /\ contexts[c].state = "idle"
    /\ \E e \in CalledInputs :
          /\ expression' = e
          /\ contexts' = [contexts EXCEPT
                ![c] = [state |-> "calculating", expression |-> e,
                        outcome |-> IdleContext.outcome]]
    /\ thread' = c
    /\ pc' = "sanitize"
    /\ UNCHANGED <<sanitizedExpression, pos, stack, ret, thrown, logged, outcome,
                   response, firstCall, botVars>>

\* calculate has returned to the handler of c, which keeps the outcome and
\* awaits its reply: await message.reply(response)
Reply(c) ==
    /\ thread = c
    /\ pc = "done"
    /\ contexts' = [contexts EXCEPT ![c].state = "replying", ![c].outcome = outcome]
    /\ thread' = NoContext
    /\ firstCall' =
          IF firstCall.made THEN firstCall
          ELSE [made |-> TRUE, expression |-> expression, outcome |-> outcome]
    /\ UNCHANGED <<expression, pc, sanitizedExpression, pos, stack, ret, thrown,
                   logged, outcome, response, botVars>>

\* the reply is sent and the command logged with the handler's own error:
\* await storage.createCommandLog({ ... status: error ? 'Error' : 'Success' })
CreateCommandLog(c) ==
    /\ contexts[c].state = "replying"
    /\ contexts' = [contexts EXCEPT ![c] = IdleContext]
    /\ UNCHANGED <<expression, pc, sanitizedExpression, pos, stack, ret, thrown,
                   logged, outcome, response, thread, firstCall, botVars>>

CallsNext ==
    \/ \E c \in Contexts : Calculate(c)
    \/ SanitizeStep
    \/ CheckChars
    \/ CheckLength
    \/ CheckDivisionByZero
    \/ EvaluateExpressionCall
    \/ EvaluateExpressionReturn
    \/ ParseExpressionCall
    \/ ParseExpressionLoop
    \/ ParseTermCall
    \/ ParseTermLoop
    \/ ParseFactorCall
    \/ ParseFactorClose
    \/ Format
    \/ Catch
    \/ \E c \in Contexts : Reply(c)
    \/ \E c \in Contexts : CreateCommandLog(c)

CallsSpec == Init /\ [][CallsNext]_vars

-----------------------------------------------------------------------------
(* The arithmetic an expression denotes, defined on the text by its grammar *)
(*   expression := term (("+" | "-") term)*                                 *)
(*   term       := factor (("*" | "/") factor)*                             *)
(*   factor     := "(" expression ")" | number                              *)
(*   number     := digit+ ("." digit+)?                                     *)
(* without a cursor: an expression is the sum of its terms, those after a   *)
(* "-" negated; a term is the product of its factors, those after a "/"     *)
(* inverted.  Sums and products are taken by halving, to keep the           *)
(* definitions shallow on long texts.                                       *)

Invalid == [kind |-> "invalid", n |-> 0, d |-> 1]
DivZero == [kind |-> "divzero", n |-> 0, d |-> 1]

\* how many of s[1..i] equal c
Count(s, i, c) == Cardinality({j \in 1..i : s[j] = c})

\* the parentheses open before index i
DepthBefore(s, i) == Count(s, i - 1, "(") - Count(s, i - 1, ")")

Balanced(s) ==
    /\ \A i \in 1..Len(s) : DepthBefore(s, i + 1) >= 0
    /\ DepthBefore(s, Len(s) + 1) = 0

\* the indices of the operators of ops that stand outside every parenthesis
TopLevel(s, ops) == {i \in 1..Len(s) : s[i] \in ops /\ DepthBefore(s, i) = 0}

\* the k-th smallest element of I (k from 1); 0 for k = 0
Nth(I, k) ==
    IF k = 0 THEN 0 ELSE CHOOSE i \in I : Cardinality({j \in I : j < i}) = k - 1

\* the k-th operand (k from 0) of the chain s whose operators stand at I
Operand(s, I, k) ==
    SubSeq(s, Nth(I, k) + 1,
           IF k = Cardinality(I) THEN Len(s) ELSE Nth(I, k + 1) - 1)

\* the operator before the k-th operand ("+" and "*" before the first)
OperatorBefore(s, I, k, first) == IF k = 0 THEN first ELSE s[Nth(I, k)]

\* number := digit+ ("." digit+)?
MathNumber(s) ==
    LET k == DigitRun(s, 1)
        f == IF k < Len(s) /\ s[k + 1] = "." THEN DigitRun(s, k + 2) ELSE 0
    IN  IF k >= 1 /\ k = Len(s) THEN IntVal(DigitsValue(s))
        ELSE IF k >= 1 /\ f >= 1 /\ k + 1 + f = Len(s)
        THEN Rat(DigitsValue(SubSeq(s, 1, k)) * Pow10(f)
                   + DigitsValue(SubSeq(s, k + 2, Len(s))), Pow10(f))
        ELSE Invalid

MathApply(op, x, y) ==
    IF x.kind = "invalid" \/ y.kind = "invalid" THEN Invalid
    ELSE IF x.kind = "divzero" \/ y.kind = "divzero" THEN DivZero
    ELSE CASE op = "+" -> Rat(x.n * y.d + y.n * x.d, x.d * y.d)
           [] op = "-" -> Rat(x.n * y.d - y.n * x.d, x.d * y.d)
           [] op = "*" -> Rat(x.n * y.n, x.d * y.d)
           [] op = "/" -> IF y.n = 0 THEN DivZero ELSE Rat(x.n * y.d, x.d * y.n)

RECURSIVE MathValue(_), MathSum(_, _, _, _), MathProduct(_, _, _, _)

\* the sum of the operands lo..hi of an additive chain
MathSum(s, I, lo, hi) ==
    IF lo = hi
    THEN MathApply(OperatorBefore(s, I, lo, "+"), IntVal(0),
                   MathValue(Operand(s, I, lo)))
    ELSE MathApply("+", MathSum(s, I, lo, (lo + hi) \div 2),
                   MathSum(s, I, (lo + hi) \div 2 + 1, hi))

\* the product of the operands lo..hi of a multiplicative chain
MathProduct(s, I, lo, hi) ==
    IF lo = hi
    THEN MathApply(OperatorBefore(s, I, lo, "*"), IntVal(1),
                   MathValue(Operand(s, I, lo)))
    ELSE MathApply("*", MathProduct(s, I, lo, (lo + hi) \div 2),
                   MathProduct(s, I, (lo + hi) \div 2 + 1, hi))

MathValue(s) ==
    IF s = <<>> \/ ~Balanced(s) THEN Invalid
    ELSE LET additive == TopLevel(s, {"+", "-"})
             multiplicative == TopLevel(s, {"*", "/"})
         IN  IF additive # {}
             THEN MathSum(s, additive, 0, Cardinality(additive))
             ELSE IF multiplicative # {}
             THEN MathProduct(s, multiplicative, 0, Cardinality(multiplicative))
             ELSE IF s[1] = "(" /\ s[Len(s)] = ")"
             THEN MathValue(SubSeq(s, 2, Len(s) - 1))
             ELSE MathNumber(s)

\* |x - y| <= 10^-6 for two rationals
Within1e6(x, y) ==
    Abs(x.n * y.d - y.n * x.d) * Pow10(6) <= x.d * y.d

\* the text without its whitespace, and what only the allowed characters spell
Stripped(s) == SelectSeq(s, LAMBDA c : c \notin {" ", "\t", "\n", "\r"})
AllowedChars ==
    {"0", "1", "2", "3", "4", "5", "6", "7", "8", "9",
     "+", "-", "*", "/", "(", ")", "."}
AllAllowed(s) == \A i \in 1..Len(s) : s[i] \in AllowedChars
ContainsSlashZero(s) == \E i \in 1..(Len(s) - 1) : s[i] = "/" /\ s[i + 1] = "0"

\* calculate has returned
Returned == pc = "done"

\* calculate returned without a call of evaluateExpression
NotParsed == stack = <<>> /\ pos = 0 /\ ret = Null /\ logged = NoThrow

InvalidExpressionOutcome == [result |-> Null, error |-> ERROR_INVALID_EXPRESSION]
DivisionByZeroOutcome == [result |-> Null, error |-> ERROR_DIVISION_BY_ZERO]
TooComplexOutcome == [result |-> Null, error |-> ERROR_TOO_COMPLEX]

-----------------------------------------------------------------------------
(* Claims *)

\* the whitespace-stripped text of the call
S == Stripped(expression)

\* S passes the character check and the length guard, and has no "/0"
ReachesParser ==
    Len(S) >= 1 /\ AllAllowed(S) /\ Len(S) <= 100 /\ ~ContainsSlashZero(S)

OutcomeValues ==
    {InvalidExpressionOutcome, DivisionByZeroOutcome, TooComplexOutcome}

\* C1: whatever the input, the outcome calculate returns has exactly one of
\* result and error non-null, never both and never neither.
C1_ExactlyOneOfResultAndError ==
    Returned => ((outcome.result # Null) # (outcome.error # NullError))

\* a call that returned the number 0 and no error
C1_Witness ==
    Returned /\ outcome.result = IntVal(0) /\ outcome.error = NullError

\* C2: no Error thrown inside evaluateExpression leaves calculate: calculate
\* never ends with an exception, and what it returns is an outcome value, an
\* error outcome or a number without an error.
C2_NoExceptionEscapes ==
    /\ pc # "crashed"
    /\ Returned =>
          /\ thrown = NoThrow
          /\ \/ outcome \in OutcomeValues
             \/ outcome.result.kind = "num" /\ outcome.error = NullError

\* a call that returned after the catch block caught a missing parenthesis
C2_Witness ==
    /\ Returned
    /\ logged = "Missing closing parenthesis"
    /\ outcome = InvalidExpressionOutcome

C4_DisallowedCharacterRejected ==
    (Returned /\ ~AllAllowed(S))
    => (outcome = InvalidExpressionOutcome /\ NotParsed)

\* a rejected text that begins with an allowed character
C4_Witness ==
    /\ Returned
    /\ ~AllAllowed(S)
    /\ S[1] \in AllowedChars
    /\ outcome = InvalidExpressionOutcome

\* C5 as stated: a stripped text of more than 100 characters returns the
\* TooComplex error, whatever it holds.
C5_LongTextTooComplex ==
    (Returned /\ Len(S) > 100) => outcome = TooComplexOutcome

\* C5 amended: a stripped text of more than 100 characters, all of them
\* allowed, returns the TooComplex error, well-formed or not.
C5_LongAllowedTextTooComplex ==
    (Returned /\ Len(S) > 100 /\ AllAllowed(S)) => outcome = TooComplexOutcome

\* a malformed text of more than 100 allowed characters, found too complex
C5_Witness ==
    /\ Returned
    /\ Len(S) > 100
    /\ AllAllowed(S)
    /\ MathValue(S).kind = "invalid"
    /\ outcome = TooComplexOutcome

\* C6: a stripped text of allowed characters, at most 100 of them, with a "/"
\* directly followed by the digit 0 returns the DivisionByZero error and is
\* never parsed, whether or not the divisor is zero or the text well-formed.
C6_SlashZeroIsDivisionByZero ==
    (Returned /\ AllAllowed(S) /\ Len(S) <= 100 /\ ContainsSlashZero(S))
    => (outcome = DivisionByZeroOutcome /\ NotParsed)

\* a well-formed text whose every divisor is different from zero, rejected
C6_Witness ==
    /\ Returned
    /\ ContainsSlashZero(S)
    /\ MathValue(S).kind = "num"
    /\ outcome = DivisionByZeroOutcome

\* C7: when a divisor evaluates to 0 while parsing (the text has no "/0"),
\* calculate returns the InvalidExpression error with a null result; and a
\* well-formed text without "/0" in which a divisor is zero ends that way.
C7_ZeroDivisorIsInvalidExpression ==
    Returned =>
        /\ logged = "Division by zero" => outcome = InvalidExpressionOutcome
        /\ (ReachesParser /\ MathValue(S).kind = "divzero")
           => (logged = "Division by zero" /\ outcome = InvalidExpressionOutcome)

\* (1-1)*5/(3-3) was parsed up to the zero divisor
C7_Witness ==
    /\ Returned
    /\ expression = Deep(Digit(1), Digit(1), Digit(3), Digit(3))
    /\ logged = "Division by zero"
    /\ outcome = InvalidExpressionOutcome

\* the value the operand at index i of S denotes (a digit)
DigitAt(i) == IntVal(DigitValue(S[i]))

\* calculate returned the number x (to six decimals)
Gives(x) ==
    /\ outcome.error = NullError
    /\ outcome.result.kind = "num"
    /\ Within1e6(outcome.result, x)

IsFlat ==
    /\ Len(S) = 5
    /\ IsDigit(S[1]) /\ S[2] \in Operators /\ IsDigit(S[3])
    /\ S[4] \in Operators /\ IsDigit(S[5])
IsGroupLeft ==
    /\ Len(S) = 7
    /\ S[1] = "(" /\ IsDigit(S[2]) /\ S[3] \in Operators /\ IsDigit(S[4])
    /\ S[5] = ")" /\ S[6] \in Operators /\ IsDigit(S[7])
IsGroupRight ==
    /\ Len(S) = 7
    /\ IsDigit(S[1]) /\ S[2] \in Operators /\ S[3] = "(" /\ IsDigit(S[4])
    /\ S[5] \in Operators /\ IsDigit(S[6]) /\ S[7] = ")"

Additive == {"+", "-"}
Multiplicative == {"*", "/"}

\* C8: * and / bind tighter than + and -, and a parenthesised expression is
\* one operand: a+b*c is a+(b*c), a*b+c is (a*b)+c, (a+b)*c is the product of
\* the sum and a*(b+c) the product with the sum, for all digits a, b, c and
\* all operators of these classes (texts without "/0" and zero divisors).
C8_PrecedenceAndParentheses ==
    (Returned /\ ~ContainsSlashZero(S)) =>
        /\ (IsFlat /\ S[2] \in Additive /\ S[4] \in Multiplicative)
           => Gives(MathApply(S[2], DigitAt(1),
                              MathApply(S[4], DigitAt(3), DigitAt(5))))
        /\ (IsFlat /\ S[2] \in Multiplicative /\ S[4] \in Additive)
           => Gives(MathApply(S[4], MathApply(S[2], DigitAt(1), DigitAt(3)),
                              DigitAt(5)))
        /\ IsGroupLeft
           => Gives(MathApply(S[6], MathApply(S[3], DigitAt(2), DigitAt(4)),
                              DigitAt(7)))
        /\ (IsGroupRight
              /\ MathApply(S[2], DigitAt(1),
                           MathApply(S[5], DigitAt(4), DigitAt(6))).kind = "num")
           => Gives(MathApply(S[2], DigitAt(1),
                              MathApply(S[5], DigitAt(4), DigitAt(6))))

\* "2 + 2 * 2" gave 6
C8_Witness ==
    /\ Returned
    /\ expression = Spaced(Digit(2), "+", Digit(2), "*", Digit(2))
    /\ outcome = Outcome(IntVal(6), NullError)

C10_TrailingInputRejected ==
    Returned =>
        /\ outcome.result # Null => pos = Len(sanitizedExpression)
        /\ logged = "Unexpected character"
           => (outcome = InvalidExpressionOutcome /\ pos < Len(sanitizedExpression))
        /\ (ReachesParser
              /\ \E k \in 1..(Len(S) - 1) :
                    /\ S[k + 1] \in {"(", ")"}
                    /\ MathValue(SubSeq(S, 1, k)).kind = "num")
           => outcome = InvalidExpressionOutcome

\* 2(1) was parsed up to the "(" and rejected
C10_Witness ==
    /\ Returned
    /\ expression = <<"2", "(", "1", ")">>
    /\ logged = "Unexpected character"
    /\ pos = 1
    /\ outcome = InvalidExpressionOutcome

\* evaluateExpression returned to calculate: its value is in ret
Evaluated == Returned /\ logged = NoThrow /\ ret # Null

\* C11: when the value evaluateExpression returned is not finite, calculate
\* returns a null result with the InvalidExpression error.
C11_NonFiniteValueIsInvalid ==
    (Evaluated /\ ~IsNum(ret)) => outcome = InvalidExpressionOutcome

\* the literal "." was parsed to NaN and nothing was thrown
C11_Witness ==
    /\ Evaluated
    /\ S = <<".">>
    /\ ret = NaN
    /\ outcome = InvalidExpressionOutcome

\* r is a multiple of 10^-6 and no multiple of 10^-6 is closer to v
RoundedToSixDecimals(r, v) ==
    /\ r.kind = "num"
    /\ Pow10(6) % r.d = 0
    /\ 2 * Pow10(6) * Abs(r.n * v.d - v.n * r.d) <= r.d * v.d

\* C12: a finite value that is an integer is returned as it is; any other
\* finite value is returned as the closest number with at most six decimals;
\* 0.1 + 0.2 is returned as 0.3.  No error comes with either.
C12_IntegerKeptOthersRounded ==
    (Evaluated /\ IsNum(ret)) =>
        /\ outcome.error = NullError
        /\ ret.d = 1 => outcome.result = ret
        /\ ret.d > 1 => RoundedToSixDecimals(outcome.result, ret)
        /\ S = <<"0", ".", "1", "+", "0", ".", "2">> => outcome.result = Rat(3, 10)

\* a value with more than six decimals was returned as a different number
C12_Witness ==
    /\ Evaluated
    /\ IsNum(ret)
    /\ Pow10(6) % ret.d # 0
    /\ outcome.result # ret
    /\ RoundedToSixDecimals(outcome.result, ret)

\* C17: a text that is empty once its whitespace is removed returns a null
\* result with the InvalidExpression error, from the character check: it is
\* never parsed.
C17_EmptyIsInvalid ==
    (Returned /\ Len(S) = 0) => (outcome = InvalidExpressionOutcome /\ NotParsed)

\* a text of blanks only was rejected
C17_Witness ==
    /\ Returned
    /\ Len(expression) >= 2
    /\ Len(S) = 0
    /\ outcome = InvalidExpressionOutcome

\* an operator of s stands at the end of s, or directly before ")" or before
\* another operator
OperatorWithoutFactor(s) ==
    \E i \in 1..Len(s) :
        /\ s[i] \in Operators
        /\ (i = Len(s) \/ s[i + 1] \in Operators \cup {")"})

\* C18 as stated: every text with an operator that no factor follows returns
\* the InvalidExpression error.
C18_OperatorWithoutFactorInvalid ==
    (Returned /\ OperatorWithoutFactor(S)) => outcome = InvalidExpressionOutcome

\* C18 amended: a text that reaches the parser (allowed characters, at most
\* 100, no "/0") with an operator that no factor follows returns the
\* InvalidExpression error; when the operator ends a text whose rest is a
\* well-formed expression, the parser has thrown "Expected a number".
C18_OperatorWithoutFactorParsedInvalid ==
    (Returned /\ ReachesParser /\ OperatorWithoutFactor(S)) =>
        /\ outcome = InvalidExpressionOutcome
        /\ (S[Len(S)] \in Operators
              /\ MathValue(SubSeq(S, 1, Len(S) - 1)).kind = "num")
           => logged = "Expected a number"

\* "2 + " was parsed up to its end and rejected
C18_Witness ==
    /\ Returned
    /\ expression = <<"2", " ", "+", " ">>
    /\ pos = 2
    /\ logged = "Expected a number"
    /\ outcome = InvalidExpressionOutcome

\* C19: the first check that fails decides the outcome, in the order
\* character class, length, "/0" scan, parser: a text that fails the
\* character check is invalid, an allowed text longer than 100 characters is
\* too complex also when it holds "/0", a shorter one with "/0" is a division
\* by zero, and only the others are parsed.
C19_FirstFailingCheckDecides ==
    Returned =>
        IF Len(S) = 0 \/ ~AllAllowed(S)
        THEN outcome = InvalidExpressionOutcome /\ NotParsed
        ELSE IF Len(S) > 100
        THEN outcome = TooComplexOutcome /\ NotParsed
        ELSE IF ContainsSlashZero(S)
        THEN outcome = DivisionByZeroOutcome /\ NotParsed
        ELSE outcome \notin {TooComplexOutcome, DivisionByZeroOutcome} /\ ~NotParsed

\* a text of more than 100 allowed characters with "/0" in it, found too
\* complex
C19_Witness ==
    /\ Returned
    /\ AllAllowed(S)
    /\ Len(S) > 100
    /\ ContainsSlashZero(S)
    /\ outcome = TooComplexOutcome

\* C20 as stated: the TooComplex error comes only with a stripped text of more
\* than 100 characters, and every text of exactly 100 allowed characters is
\* parsed.
C20_ExactlyLimitIsParsed ==
    Returned =>
        /\ outcome = TooComplexOutcome => Len(S) > 100
        /\ (Len(S) = 100 /\ AllAllowed(S)) => ~NotParsed

\* C20 amended: the TooComplex error comes only with a stripped text of more
\* than 100 characters, whatever the length of the raw text; a text of
\* exactly 100 allowed characters passes the length guard, and is parsed
\* unless it holds "/0".
C20_ExactlyLimitPassesGuard ==
    Returned =>
        /\ outcome = TooComplexOutcome => Len(S) > 100
        /\ (Len(S) = 100 /\ AllAllowed(S)) =>
              /\ outcome # TooComplexOutcome
              /\ ContainsSlashZero(S) => outcome = DivisionByZeroOutcome
              /\ ~ContainsSlashZero(S) => ~NotParsed

\* a well-formed text of exactly 100 characters gave a number
C20_Witness ==
    /\ Returned
    /\ Len(S) = 100
    /\ outcome.error = NullError
    /\ outcome.result.kind = "num"

\* the first line of the message with its line break: the label and the raw
\* text of the call between backquotes
EchoLine == <<ExpressionLabel, Backquote>> \o expression \o <<Backquote, "\n">>

\* what the message holds after the echo of the expression
AfterEcho == SubSeq(response, Len(EchoLine) + 1, Len(response))

\* how many line breaks the text t holds
LineBreaks(t) == Cardinality({i \in 1..Len(t) : t[i] = "\n"})

\* text is the plain decimal numeral of x: an optional "-", digits without a
\* leading 0, and a fraction, if any, that does not end in 0
Denotes(text, x) ==
    LET negative == text # <<>> /\ text[1] = "-"
        numeral == IF negative THEN Tail(text) ELSE text
        k == DigitRun(numeral, 1)
    IN  /\ IsNum(x)
        /\ negative <=> x.n < 0
        /\ k > 1 => numeral[1] # "0"
        /\ k < Len(numeral) => numeral[Len(numeral)] # "0"
        /\ MathNumber(numeral) = Rat(Abs(x.n), x.d)

\* the message is the echo line followed by the error line or the result line
EchoThenErrorOrResult ==
    /\ Len(response) > Len(EchoLine)
    /\ SubSeq(response, 1, Len(EchoLine)) = EchoLine
    /\ IF outcome.error # NullError
       THEN AfterEcho = <<ErrorLabel, outcome.error>>
       ELSE /\ Len(AfterEcho) >= 4
            /\ SubSeq(AfterEcho, 1, 2) = <<ResultLabel, Backquote>>
            /\ AfterEcho[Len(AfterEcho)] = Backquote
            /\ Denotes(SubSeq(AfterEcho, 3, Len(AfterEcho) - 1), outcome.result)

\* C16 as stated: for every expression and every outcome of calculate the
\* message has two lines: the raw expression echoed on the first, the error
\* text or else the number (also the number 0) on the second.
C16_TwoLineBlock ==
    response # NoResponse => (EchoThenErrorOrResult /\ LineBreaks(response) = 1)

\* C16 amended: the message is the raw expression echoed between backquotes,
\* a line break, and then the error text or else the number (also the number
\* 0); it has two lines when the expression holds no line break.
C16_EchoThenOutcome ==
    response # NoResponse =>
        /\ EchoThenErrorOrResult
        /\ LineBreaks(expression) = 0 => LineBreaks(response) = 1

\* the result 0 of "1 -1" is shown as a result, after the text as typed
C16_Witness ==
    /\ expression = <<"1", " ", "-", "1">>
    /\ outcome = Outcome(IntVal(0), NullError)
    /\ response = <<ExpressionLabel, Backquote, "1", " ", "-", "1", Backquote,
                    "\n", ResultLabel, Backquote, "0", Backquote>>

\* the handler of c holds the outcome of its call while it awaits the reply
Holds(c) == contexts[c].state = "replying"

\* C13: two evaluations of the same text give the same outcome, whatever was
\* evaluated before or between them: a call of the text of the first call
\* returns what the first call returned, and two handlers that hold the
\* outcome of the same text hold the same outcome.
C13_SameTextSameOutcome ==
    /\ (Returned /\ firstCall.made /\ expression = firstCall.expression)
       => outcome = firstCall.outcome
    /\ \A a \in Contexts : \A b \in Contexts :
          (Holds(a) /\ Holds(b) /\ contexts[a].expression = contexts[b].expression)
          => contexts[a].outcome = contexts[b].outcome

\* "1+2" gave 3 twice, after a first call that left the cursor at 2 and an
\* Error in the log
C13_Witness ==
    /\ firstCall.expression = <<"2", "+">>
    /\ Holds("message")
    /\ contexts["message"].expression = <<"1", "+", "2">>
    /\ contexts["message"].outcome = Outcome(IntVal(3), NullError)
    /\ thread = "interaction"
    /\ Returned
    /\ expression = <<"1", "+", "2">>
    /\ outcome = Outcome(IntVal(3), NullError)

\* C14: calls from several handlers do not disturb one another: whatever
\* calls the other handlers make while a handler awaits its reply, the
\* outcome the handler holds is the one its text gives when it is the only
\* call; and the call that runs scans the text of its own handler, with its
\* cursor inside that text.
C14_HandlersDoNotInterfere ==
    /\ \A c \in Contexts :
          (Holds(c) /\ firstCall.expression = contexts[c].expression)
          => ResultOf(c) = firstCall.outcome
    /\ (thread # NoContext /\ pc = "evaluate" /\ Len(stack) > 1)
       => /\ sanitizedExpression = Stripped(contexts[thread].expression)
          /\ pos \in 0..Len(sanitizedExpression)

\* the message handler holds 12 for "12", the text of the first call, while
\* the call of the interaction handler is parsing another text
C14_Witness ==
    /\ firstCall.expression = <<"1", "2">>
    /\ Holds("message")
    /\ contexts["message"].expression = <<"1", "2">>
    /\ ResultOf("message") = Outcome(IntVal(12), NullError)
    /\ thread = "interaction"
    /\ contexts["interaction"].expression = <<"(", "1">>
    /\ pc = "evaluate"
    /\ pos = 2

\* C15: calculate(e) returns what calculate returns for e without its
\* whitespace, wherever the whitespace stands: every statement after the first
\* works on the stripped text, and two handlers whose texts differ only in
\* whitespace hold the same outcome.
C15_WhitespaceIsIgnored ==
    /\ (thread # NoContext /\ pc # "sanitize")
       => sanitizedExpression = Stripped(expression)
    /\ \A a \in Contexts : \A b \in Contexts :
          (Holds(a) /\ Holds(b)
              /\ contexts[b].expression = Stripped(contexts[a].expression))
          => contexts[a].outcome = contexts[b].outcome

\* "1 2" and "12" both gave 12
C15_Witness ==
    /\ Holds("message")
    /\ contexts["message"].expression = <<"1", " ", "2">>
    /\ Holds("interaction")
    /\ contexts["interaction"].expression = <<"1", "2">>
    /\ contexts["message"].outcome = Outcome(IntVal(12), NullError)
    /\ contexts["interaction"].outcome = Outcome(IntVal(12), NullError)

\* parseFactor runs its number branch: the next character is not "("
ScansNumber ==
    /\ Running("parseFactor")
    /\ Top.at = "call"
    /\ CharAt(sanitizedExpression, pos) # "("

\* C21 as stated: the number branch of the factor rule consumes at least one
\* digit and at most one decimal point, or consumes nothing and throws
\* "Expected a number".
C21_LiteralHasAtMostOneDot ==
    [][ScansNumber =>
          IF pos' = pos THEN thrown' = "Expected a number"
          ELSE LET text == Substring(sanitizedExpression, pos, pos')
               IN  /\ Count(text, Len(text), ".") <= 1
                   /\ \E i \in 1..Len(text) : IsDigit(text[i])]_vars

\* more "(" than ")"
Unclosed(s) == Count(s, Len(s), "(") > Count(s, Len(s), ")")

\* C22: when the character after a nested expression is not ")", calculate
\* returns the InvalidExpression error; every text with an unclosed "(" is
\* rejected, with that error when it reaches the parser; and "(" before a
\* well-formed expression and nothing else ends in this failure.
C22_MissingClosingParenthesisRejected ==
    Returned =>
        /\ logged = "Missing closing parenthesis"
           => /\ outcome = InvalidExpressionOutcome
              /\ CharAt(sanitizedExpression, pos) # ")"
        /\ Unclosed(S) => (outcome.result = Null /\ outcome.error # NullError)
        /\ (ReachesParser /\ Unclosed(S)) => outcome = InvalidExpressionOutcome
        /\ (ReachesParser /\ S[1] = "("
              /\ MathValue(SubSeq(S, 2, Len(S))).kind = "num")
           => logged = "Missing closing parenthesis"

\* "(1+2" was parsed to its end, where the ")" is missing
C22_Witness ==
    /\ Returned
    /\ expression = <<"(", "1", "+", "2">>
    /\ pos = 4
    /\ logged = "Missing closing parenthesis"
    /\ outcome = InvalidExpressionOutcome

C24_EveryCallTerminates ==
    /\ [](pc = "evaluate" =>
            /\ Len(stack) <= 4 + 3 * pos
            /\ Len(sanitizedExpression) <= MaxExpressionLength)
    /\ (pc = "sanitize") ~> (pc = "done")

\* the deepest the parser gets on "((": ten activations
C24_Witness ==
    /\ pc = "evaluate"
    /\ pos = 2
    /\ Len(stack) = 10

\* "+" or "-" stands in s where a factor is expected
SignForFactor(s) ==
    \E i \in 1..Len(s) :
        /\ s[i] \in {"+", "-"}
        /\ (i = 1 \/ s[i - 1] \in Operators \cup {"("})

\* C25 as stated: every text with "+" or "-" where a factor is expected
\* returns the InvalidExpression error.
C25_SignForFactorInvalid ==
    (Returned /\ SignForFactor(S)) => outcome = InvalidExpressionOutcome

\* C25 amended: a text that reaches the parser (allowed characters, at most
\* 100, no "/0") with "+" or "-" where a factor is expected returns the
\* InvalidExpression error, a leading sign stops the parser at the first
\* character, and a negative result comes only from a text with a "-" after
\* an operand.
C25_SignForFactorParsedInvalid ==
    Returned =>
        /\ (ReachesParser /\ SignForFactor(S)) => outcome = InvalidExpressionOutcome
        /\ (ReachesParser /\ S[1] \in {"+", "-"})
           => (logged = "Expected a number" /\ pos = 0)
        /\ (outcome.result.kind = "num" /\ outcome.result.n < 0)
           => \E i \in 2..Len(S) :
                 S[i] = "-" /\ (IsDigit(S[i - 1]) \/ S[i - 1] \in {".", ")"})

\* "2*-1" was parsed up to the "-" and rejected
C25_Witness ==
    /\ Returned
    /\ expression = <<"2", "*", "-", "1">>
    /\ pos = 2
    /\ logged = "Expected a number"
    /\ outcome = InvalidExpressionOutcome

-----------------------------------------------------------------------------
(* The confirmation of a send-to-all DM request: bot.ts, lines 425-485 for  *)
(* the "/dm all" text command and lines 797-858, with the same statements,  *)
(* for the slash command.  Each request has its own closure (confirmed,     *)
(* timeoutId, confirmHandler); the client calls every registered            *)
(* confirmHandler for every message it emits.  A handler runs without       *)
(* interruption up to its next await.                                       *)

\* everything but the pending requests
notConfirmVars ==
    <<calculatorVars, response, contexts, thread, firstCall,
      fanOutVars, cooldownVars, storageVars>>

ConfirmDm == <<"/", "c", "o", "n", "f", "i", "r", "m", "-", "d", "m">>

\* what the users type
Contents ==
    { ConfirmDm,
      <<"/", "C", "o", "n", "f", "i", "r", "m", "-", "D", "M">>,
      <<"/", "c", "o", "n", "f", "i", "r", "m">> }

\* String.prototype.toLowerCase, on the letters of Contents
LowerCaseOf(c) ==
    CASE c = "C" -> "c"
      [] c = "D" -> "d"
      [] c = "M" -> "m"
      [] OTHER -> c

ToLowerCase(s) == [i \in 1..Len(s) |-> LowerCaseOf(s[i])]

\* const filter = (m) =>
\*   m.author.id === message.author.id && m.content.toLowerCase() === '/confirm-dm'
Filter(r, author, content) ==
    /\ dmRequests[r].author = author
    /\ ToLowerCase(content) = ConfirmDm

\* the handler of "/dm all", after the warning is shown: confirmed = false,
\* both timers are set and the confirmHandler is registered
RequestDmAll(r, u) ==
    /\ dmRequests[r].author = NoUser
    /\ \A q \in 1..(r - 1) : dmRequests[q].author # NoUser
    /\ dmRequests' = [dmRequests EXCEPT
          ![r] = [NoRequest EXCEPT
                     !.author = u, !.timeoutId = "pending", !.cleanupId = "pending"]]
    /\ listeners' = listeners \cup {r}
    /\ UNCHANGED delivered
    /\ UNCHANGED notConfirmVars

\* confirmHandler up to its await: confirmed = true; clearTimeout(timeoutId);
\* and processBulkDm up to its first await, the send of
\* 'Confirmation received. Sending DMs to all members...'
Confirmed(request) ==
    [request EXCEPT
        !.confirmed = TRUE,
        !.timeoutId = IF @ = "pending" THEN "cleared" ELSE @,
        !.announcing = @ + 1]

ListenersAfterKept(ls, matching) == ls

\* this.client.off(Events.MessageCreate, confirmHandler), before the await
ListenersAfter(ls, matching) == ls \ matching

\* the client emits a message: every registered confirmHandler is called with it
MessageCreate(u, content) ==
    /\ delivered < MaxMessages
    /\ LET matching == {r \in listeners : Filter(r, u, content)}
       IN  /\ dmRequests' =
                [r \in Requests |->
                    LET request == IF r \in matching THEN Confirmed(dmRequests[r])
                                   ELSE dmRequests[r]
                    IN  IF request.author # NoUser /\ Filter(r, u, content)
                        THEN [request EXCEPT !.confirms = @ + 1]
                        ELSE request]
           /\ listeners' = ListenersAfter(listeners, matching)
    /\ delivered' = delivered + 1
    /\ UNCHANGED notConfirmVars

\* the timers of the requests made earlier expire first
EarlierExpired(r, timer) == \A q \in 1..(r - 1) : dmRequests[q][timer] # "pending"

\* setTimeout(() => { if (!confirmed) channel.send('Confirmation timed out. ...') }, 30000)
Timeout(r) ==
    /\ dmRequests[r].timeoutId = "pending"
    /\ EarlierExpired(r, "timeoutId")
    /\ dmRequests' = [dmRequests EXCEPT
          ![r].timeoutId = "fired",
          ![r].timedOut = @ \/ ~dmRequests[r].confirmed]
    /\ UNCHANGED <<listeners, delivered>>
    /\ UNCHANGED notConfirmVars

\* setTimeout(() => { this.client.off(Events.MessageCreate, confirmHandler) }, 31000):
\* one second after the 30-second timer of the same request
Cleanup(r) ==
    /\ dmRequests[r].cleanupId = "pending"
    /\ dmRequests[r].timeoutId # "pending"
    /\ EarlierExpired(r, "cleanupId")
    /\ dmRequests' = [dmRequests EXCEPT ![r].cleanupId = "fired"]
    /\ listeners' = listeners \ {r}
    /\ UNCHANGED delivered
    /\ UNCHANGED notConfirmVars

\* processBulkDm after its first await: sendDirectMessageToAllMembers is called
AnnounceSent(r) ==
    /\ dmRequests[r].announcing > 0
    /\ dmRequests' = [dmRequests EXCEPT ![r].announcing = @ - 1, ![r].started = @ + 1]
    /\ UNCHANGED <<listeners, delivered>>
    /\ UNCHANGED notConfirmVars

\* the first send of processBulkDm is rejected: no DM is sent
AnnounceFails(r) ==
    /\ dmRequests[r].announcing > 0
    /\ dmRequests' = [dmRequests EXCEPT ![r].announcing = @ - 1]
    /\ UNCHANGED <<listeners, delivered>>
    /\ UNCHANGED notConfirmVars

\* sendDirectMessageToAllMembers returns its stats, which processBulkDm sends
FanOutReturns(r) ==
    /\ dmRequests[r].started > dmRequests[r].returned
    /\ dmRequests' = [dmRequests EXCEPT ![r].returned = @ + 1]
    /\ UNCHANGED <<listeners, delivered>>
    /\ UNCHANGED notConfirmVars

ConfirmNext ==
    \/ \E r \in Requests, u \in Users : RequestDmAll(r, u)
    \/ \E u \in Users, content \in Contents : MessageCreate(u, content)
    \/ \E r \in Requests : Timeout(r)
    \/ \E r \in Requests : Cleanup(r)
    \/ \E r \in Requests : AnnounceSent(r)
    \/ \E r \in Requests : AnnounceFails(r)
    \/ \E r \in Requests : FanOutReturns(r)

ConfirmSpec == Init /\ [][ConfirmNext]_vars

\* C26: once the 30-second timer of a request has fired and the notice
\* 'Confirmation timed out. No messages were sent.' has been sent, no
\* /confirm-dm message starts the fan-out of that request.
C26_NoFanOutAfterTimeoutNotice ==
    [][\A r \in Requests :
          dmRequests[r].timedOut => dmRequests'[r].started = dmRequests[r].started]_vars

\* C27: for one request sendDirectMessageToAllMembers is started at most
\* once, however many messages pass its filter, and the confirmHandler of a
\* confirmed request is no longer registered.
C27_FanOutStartedAtMostOnce ==
    \A r \in Requests :
        /\ dmRequests[r].started <= 1
        /\ dmRequests[r].confirmed => r \notin listeners

\* the fan-out of a request runs and a second /confirm-dm of its author was
\* emitted
C27_Witness ==
    \E r \in Requests :
        /\ dmRequests[r].started = 1
        /\ dmRequests[r].returned = 0
        /\ dmRequests[r].confirms >= 2

-----------------------------------------------------------------------------
(* sendDirectMessageToAllMembers (dm helper, lines 79-147).  Every await    *)
(* of the function is a step that either resolves or rejects.               *)

\* everything but the activation of sendDirectMessageToAllMembers
notFanOutVars ==
    <<calculatorVars, response, contexts, thread, firstCall,
      confirmVars, cooldownVars, storageVars>>

\* guild.members.cache: for each member whether member.user.bot
Guilds ==
    { [i \in 1..(humans + bots) |-> i > humans] :
          humans \in 0..MaxMembers, bots \in 0..1 }

\* guild.members.cache.filter(member => !member.user.bot).size
NonBots(cache) == Cardinality({i \in 1..Len(cache) : ~cache[i]})

\* the function is called: const stats = { total: 0, sent: 0, failed: 0, errors: [] }
FanOutCall ==
    /\ fanOut.pc \in {"idle", "returned", "rejected"}
    /\ \E cache \in Guilds, channel \in BOOLEAN :
          fanOut' = [IdleFanOut EXCEPT
                        !.pc = "fetch", !.cache = cache, !.progressChannel = channel]
    /\ stats' = NoStats
    /\ UNCHANGED notFanOutVars

\* await guild.members.fetch(); stats.total = members.size
FetchMembers ==
    /\ fanOut.pc = "fetch"
    /\ \E ok \in BOOLEAN :
          IF ok
          THEN /\ stats' = [stats EXCEPT !.total = NonBots(fanOut.cache)]
               /\ fanOut' = [fanOut EXCEPT
                     !.members = NonBots(fanOut.cache),
                     !.tally = [i \in 1..NonBots(fanOut.cache) |->
                                   [sent |-> 0, failed |-> 0]],
                     !.pc = IF fanOut.progressChannel THEN "starting" ELSE "loop"]
          ELSE /\ fanOut' = [fanOut EXCEPT !.pc = "catch"]
               /\ UNCHANGED stats
    /\ UNCHANGED notFanOutVars

\* await progressChannel.send(`Starting to send DMs to ... members...`)
SendStarting ==
    /\ fanOut.pc = "starting"
    /\ \E ok \in BOOLEAN :
          fanOut' = [fanOut EXCEPT !.pc = IF ok THEN "loop" ELSE "catch"]
    /\ UNCHANGED stats
    /\ UNCHANGED notFanOutVars

\* one member of the loop: createDM and send, then stats.sent++ and, every
\* fifth sent message, the progress update; the catch of lines 122-126
\* counts the member as failed; the delay of line 129 ends the iteration
SendMessage ==
    /\ fanOut.pc = "loop"
    /\ fanOut.index < fanOut.members
    /\ LET member == fanOut.index + 1
       IN  \E ok \in BOOLEAN :
              IF ok
              THEN /\ stats' = [stats EXCEPT !.sent = @ + 1]
                   /\ IF fanOut.progressChannel /\ (stats.sent + 1) % ProgressEvery = 0
                      THEN fanOut' = [fanOut EXCEPT
                              !.tally[member].sent = @ + 1, !.pc = "progress"]
                      ELSE fanOut' = [fanOut EXCEPT
                              !.tally[member].sent = @ + 1, !.index = member]
              ELSE /\ stats' = [stats EXCEPT !.failed = @ + 1, !.errors = @ + 1]
                   /\ fanOut' = [fanOut EXCEPT
                         !.tally[member].failed = @ + 1, !.index = member]
    /\ UNCHANGED notFanOutVars

\* await progressChannel.send(`Progress: ...`), inside the try of the member
\* whose message was just sent
SendProgress ==
    /\ fanOut.pc = "progress"
    /\ LET member == fanOut.index + 1
       IN  \E ok \in BOOLEAN :
              IF ok
              THEN /\ fanOut' = [fanOut EXCEPT !.index = member, !.pc = "loop"]
                   /\ UNCHANGED stats
              ELSE /\ stats' = [stats EXCEPT !.failed = @ + 1, !.errors = @ + 1]
                   /\ fanOut' = [fanOut EXCEPT
                         !.tally[member].failed = @ + 1,
                         !.index = member, !.pc = "loop"]
    /\ UNCHANGED notFanOutVars

\* the loop is over: the Finished message is sent, or, without a progress
\* channel, the stats are returned
LoopEnd ==
    /\ fanOut.pc = "loop"
    /\ fanOut.index = fanOut.members
    /\ fanOut' = [fanOut EXCEPT
          !.pc = IF fanOut.progressChannel THEN "finished" ELSE "returned"]
    /\ UNCHANGED stats
    /\ UNCHANGED notFanOutVars

\* await progressChannel.send(`Finished sending DMs. ...`); return stats
SendFinished ==
    /\ fanOut.pc = "finished"
    /\ \E ok \in BOOLEAN :
          fanOut' = [fanOut EXCEPT !.pc = IF ok THEN "returned" ELSE "catch"]
    /\ UNCHANGED stats
    /\ UNCHANGED notFanOutVars

\* the outer catch: the Error message is sent, which may be rejected as
\* well; stats.failed = stats.total - stats.sent counts as failed every
\* member that was not counted as sent
FanOutCatch ==
    /\ fanOut.pc = "catch"
    /\ \E ok \in BOOLEAN :
          IF ok \/ ~fanOut.progressChannel
          THEN /\ stats' = [stats EXCEPT
                     !.failed = stats.total - stats.sent, !.errors = @ + 1]
               /\ fanOut' = [fanOut EXCEPT
                     !.tally = [i \in 1..Len(fanOut.tally) |->
                                   IF fanOut.tally[i].sent > 0
                                   THEN [fanOut.tally[i] EXCEPT !.failed = 0]
                                   ELSE [fanOut.tally[i] EXCEPT !.failed = 1]],
                     !.pc = "returned"]
          ELSE /\ fanOut' = [fanOut EXCEPT !.pc = "rejected"]
               /\ UNCHANGED stats
    /\ UNCHANGED notFanOutVars

FanOutNext ==
    \/ FanOutCall
    \/ FetchMembers
    \/ SendStarting
    \/ SendMessage
    \/ SendProgress
    \/ LoopEnd
    \/ SendFinished
    \/ FanOutCatch

FanOutSpec == Init /\ [][FanOutNext]_vars

\* C28: whenever sendDirectMessageToAllMembers returns its stats, sent +
\* failed equals total and every non-bot member was counted exactly once,
\* as sent or as failed.
C28_EveryMemberCountedOnce ==
    fanOut.pc = "returned" =>
        /\ stats.sent + stats.failed = stats.total
        /\ \A i \in 1..Len(fanOut.tally) :
              fanOut.tally[i].sent + fanOut.tally[i].failed = 1

-----------------------------------------------------------------------------
(* The cooldown of the stored slash commands: bot.ts, lines 887-949 (the    *)
(* handler) and 995-1023 (isOnCooldown, getRemainingCooldown, setCooldown). *)
(* commandCooldowns maps the names that have a Map to that Map, which maps  *)
(* the users that have a timestamp to it.  The two reads of Date.now() in   *)
(* one synchronous run of the handler give the same millisecond.            *)

\* everything but the cooldown bookkeeping
notCooldownVars ==
    <<calculatorVars, response, contexts, thread, firstCall,
      confirmVars, fanOutVars, storageVars>>

\* Math.ceil(x / d) for d > 0
Ceil(x, d) == -((-x) \div d)

\* isOnCooldown(userId, commandName, cooldownTime): the value it returns
IsOnCooldown(userId, commandName, cooldownTime) ==
    IF commandName \notin DOMAIN commandCooldowns THEN FALSE
    ELSE LET timestamps == commandCooldowns[commandName]
         IN  IF userId \notin DOMAIN timestamps THEN FALSE
             ELSE now < timestamps[userId] + cooldownTime * MsPerSecond

\* isOnCooldown: this.commandCooldowns.set(commandName, new Map()) when the
\* name has no Map
WithMap(commandName) ==
    IF commandName \in DOMAIN commandCooldowns THEN commandCooldowns
    ELSE (commandName :> <<>>) @@ commandCooldowns

\* getRemainingCooldown(userId, commandName)
GetRemainingCooldown(userId, commandName) ==
    IF commandName \notin DOMAIN commandCooldowns THEN 0
    ELSE LET expirationTime == commandCooldowns[commandName][userId] + DefaultCooldownMs
         IN  Ceil(expirationTime - now, MsPerSecond)

\* setCooldown(userId, commandName, cooldownTime): timestamps.set(userId, Date.now())
SetCooldown(userId, commandName, cooldownTime) ==
    LET timestamps == WithMap(commandName)[commandName]
    IN  (commandName :> ((userId :> now) @@ timestamps)) @@ commandCooldowns

\* time passes
Tick ==
    /\ now + ClockStep <= MaxClock
    /\ now' = now + ClockStep
    /\ UNCHANGED <<commandCooldowns, handlers>>
    /\ UNCHANGED notCooldownVars

\* the handler of a stored command, from the command it found in the store
\* to its reply: the cooldown check, then the check of the message option
Interaction(userId, commandName, cooldown, hasMessage) ==
    /\ handlers[userId].state = "idle"
    /\ IF IsOnCooldown(userId, commandName, cooldown)
       THEN /\ handlers' = [handlers EXCEPT
                  ![userId] = [state |-> "cooldown", cooldown |-> cooldown,
                               remaining |-> GetRemainingCooldown(userId, commandName)]]
            /\ UNCHANGED commandCooldowns
       ELSE /\ commandCooldowns' = WithMap(commandName)
            /\ handlers' =
                  IF commandName = "repeat" /\ hasMessage
                  THEN [handlers EXCEPT
                          ![userId] = [state |-> "replying", cooldown |-> cooldown,
                                       remaining |-> 0]]
                  ELSE handlers
    /\ UNCHANGED now
    /\ UNCHANGED notCooldownVars

\* the repeat command has replied: this.setCooldown(...)
RepeatReplied(userId) ==
    /\ handlers[userId].state = "replying"
    /\ commandCooldowns' = SetCooldown(userId, "repeat", handlers[userId].cooldown)
    /\ handlers' = [handlers EXCEPT ![userId] = IdleHandler]
    /\ UNCHANGED now
    /\ UNCHANGED notCooldownVars

\* 'Please wait ... more second(s)' is sent and the Cooldown event logged
CooldownReplied(userId) ==
    /\ handlers[userId].state = "cooldown"
    /\ handlers' = [handlers EXCEPT ![userId] = IdleHandler]
    /\ UNCHANGED <<now, commandCooldowns>>
    /\ UNCHANGED notCooldownVars

CooldownNext ==
    \/ Tick
    \/ \E userId \in Users, commandName \in CommandNames,
          cooldown \in Cooldowns, hasMessage \in BOOLEAN :
             Interaction(userId, commandName, cooldown, hasMessage)
    \/ \E userId \in Users : RepeatReplied(userId)
    \/ \E userId \in Users : CooldownReplied(userId)

CooldownSpec == Init /\ [][CooldownNext]_vars

\* C29: when a stored command is rejected because the user is on cooldown,
\* the remaining wait reported to the user is at least 1 second and at most
\* the cooldown the command is configured with.
C29_RemainingWithinCooldown ==
    \A userId \in Users :
        handlers[userId].state = "cooldown" =>
            /\ handlers[userId].remaining >= 1
            /\ handlers[userId].remaining <= handlers[userId].cooldown

-----------------------------------------------------------------------------
(* The command store: MemStorage (storage, lines 150-185), whose Map        *)
(* botCommands is keyed by the id the store hands out, and the commands     *)
(* table of schema.ts, lines 20-29, which declares name unique.  A Command  *)
(* is modelled by its id, name, cooldown and usageCount.                    *)

\* everything but the command store
notStorageVars ==
    <<calculatorVars, response, contexts, thread, firstCall,
      confirmVars, fanOutVars, cooldownVars>>

\* InsertCommand: the name is required, the cooldown has a default
InsertCommands ==
    {[name |-> n] : n \in CommandNames}
        \cup {[name |-> n, cooldown |-> c] : n \in CommandNames, c \in Cooldowns}

\* Partial<InsertCommand> with at least one field
PartialCommands == InsertCommands \cup {[cooldown |-> c] : c \in Cooldowns}

\* { ...existing, ...partialCommand }
Spread(existing, partialCommand) ==
    [f \in DOMAIN existing \cup DOMAIN partialCommand |->
        IF f \in DOMAIN partialCommand THEN partialCommand[f] ELSE existing[f]]

\* the ids of the stored commands that have the name
CommandsNamed(name) == {id \in DOMAIN botCommands : botCommands[id].name = name}

\* getCommandByName(name): the ids it can return; find takes the first
\* command of the Map, which keeps the order of insertion, that of the ids
GetCommandByName(name) ==
    {id \in CommandsNamed(name) : \A other \in CommandsNamed(name) : id <= other}

\* createCommand(insertCommand)
CreateCommand(insertCommand) ==
    /\ currentCommandId <= MaxCommandId
    /\ LET id == currentCommandId
           command ==
               [id |-> id,
                name |-> insertCommand.name,
                cooldown |-> IF "cooldown" \in DOMAIN insertCommand
                             THEN insertCommand.cooldown ELSE DefaultCooldown,
                usageCount |-> 0]
       IN  botCommands' = (id :> command) @@ botCommands
    /\ currentCommandId' = currentCommandId + 1
    /\ UNCHANGED notStorageVars

\* updateCommand(id, partialCommand): undefined when the id is not stored
UpdateCommand(id, partialCommand) ==
    /\ botCommands' =
          IF id \in DOMAIN botCommands
          THEN [botCommands EXCEPT ![id] = Spread(@, partialCommand)]
          ELSE botCommands
    /\ UNCHANGED currentCommandId
    /\ UNCHANGED notStorageVars

\* deleteCommand(id): this.botCommands.delete(id)
DeleteCommand(id) ==
    /\ botCommands' = [other \in DOMAIN botCommands \ {id} |-> botCommands[other]]
    /\ UNCHANGED currentCommandId
    /\ UNCHANGED notStorageVars

StorageNext ==
    \/ \E insertCommand \in InsertCommands : CreateCommand(insertCommand)
    \/ \E id \in 1..MaxCommandId, partialCommand \in PartialCommands :
          UpdateCommand(id, partialCommand)
    \/ \E id \in 1..MaxCommandId : DeleteCommand(id)

StorageSpec == Init /\ [][StorageNext]_vars

\* C30: no two stored commands have the same name, so getCommandByName
\* identifies at most one command.
C30_CommandNamesUnique ==
    \A name \in CommandNames :
        /\ Cardinality(CommandsNamed(name)) <= 1
        /\ GetCommandByName(name) = CommandsNamed(name)

====
